---- MODULE Spec2Model ----
(***************************************************************************)
(* The elevator script of src/scripts/main.js: every tick, each player     *)
(* standing on an allowed block who sneaks (resp. jumps) is teleported on  *)
(* top of the nearest block of the same type below (resp. above).          *)
(*                                                                         *)
(* Coordinates.  A player's location is continuous in the source; here it  *)
(* is counted in half blocks, so 21 is y = 10.5 and -1 is x = -0.5.  Block *)
(* positions (the result of Math.floor) are counted in whole blocks.       *)
(*                                                                         *)
(* The host (world contents, players joining, moving, pressing keys) is    *)
(* the environment: its actions are Join, Leave, Move, SetInput,           *)
(* PlaceBlock and BreakBlock.  The program has one handler, the callback   *)
(* given to system.runInterval: the action Tick.                           *)
(***************************************************************************)
EXTENDS Integers, Sequences, FiniteSets, TLC

VARIABLES
    scene,         \* the part of the host world this behaviour explores (fixed)
    world,         \* host: placed blocks, <<dimension, x, y, z>> -> typeId
    players,       \* host: player id -> dimension, location, isSneaking, isJumping
    playerStates,  \* the Map of main.js:46, player id -> cooldown flags
    issued,        \* player.teleport calls made by the step just taken
    scans,         \* the scans run by the step just taken, with the ys looked up
    observed,      \* players processed by the step just taken, as they were before it
    cooling        \* history: a teleport fired and no tick has seen the input released

vars == <<scene, world, players, playerStates, issued, scans, observed, cooling>>

----------------------------------------------------------------------------
(* Program constants, main.js:41-55 *)

allowedBlocks ==
    << "minecraft:diamond_block", "minecraft:netherite_block",
       "minecraft:emerald_block", "minecraft:lapis_block",
       "minecraft:gold_block", "minecraft:iron_block",
       "minecraft:copper_block" >>

maximum == 100

miniLimit == -65

maxLimitOW == 340

maxLimitETC == 255

dimensions == << "minecraft:nether", "minecraft:overworld", "minecraft:the_end" >>

\* let minDistance = Infinity: larger than every distance a scan can measure
Infinity == maximum + 1

----------------------------------------------------------------------------
(* Bounds of the explored host world *)

\* at most this many blocks are placed in the explored cells at one time
MaxBlocks == 3

Players == {"p1", "p2"}

Overworld == "minecraft:overworld"
Nether == "minecraft:nether"
TheEnd == "minecraft:the_end"
Diamond == "minecraft:diamond_block"
Gold == "minecraft:gold_block"
Copper == "minecraft:copper_block"
Stone == "minecraft:stone"

\* Each scene is a neighbourhood of one decision of the code: "mid" the
\* nearest match and the block types (Scenario A), "low" the lower limit,
\* "top" the overworld's upper limit (Scenarios C and D), "etc" the other
\* regions' upper limit, "far" the step budget, "duo" two players.
Scenes ==
    {[name |-> "mid", dimension |-> Overworld],
     [name |-> "low", dimension |-> TheEnd],
     [name |-> "far", dimension |-> Nether],
     [name |-> "duo", dimension |-> Overworld]}
    \cup [name : {"top", "etc"}, dimension : {Nether, Overworld, TheEnd}]

\* the blocks the host may place in a scene: <<x, y, z, typeId>>
Placeable(name) ==
    CASE name = "mid" ->
           {<<0, 9, 0, Diamond>>, <<0, 9, 0, Copper>>, <<0, 9, 0, Stone>>,
            <<0, 5, 0, Diamond>>, <<0, 5, 0, Copper>>, <<0, 2, 0, Diamond>>,
            <<-1, 9, 0, Diamond>>, <<-1, 5, 0, Diamond>>}
      [] name = "low" -> {<<0, y, 0, Diamond>> : y \in {-66, -65, -64, -61}}
      [] name = "top" -> {<<0, y, 0, Diamond>> : y \in {329, 338, 339, 340}}
      [] name = "etc" -> {<<0, y, 0, Diamond>> : y \in {249, 254, 255, 256}}
      [] name = "far" -> {<<0, y, 0, Diamond>> : y \in {9, 10, 109, 111, 112}}
      [] name = "duo" -> {<<0, y, 0, Diamond>> : y \in {5, 9}}

\* the places <<x, y, z>> a player walks to, in half blocks
Walkable(name) ==
    CASE name = "mid" -> {<<0, 20, 0>>, <<-1, 21, 1>>, <<0, 6, 0>>}
      [] name = "low" -> {<<1, -120, 1>>, <<1, -125, 1>>}
      [] name = "top" -> {<<0, 660, 0>>}
      [] name = "etc" -> {<<1, 500, 1>>}
      [] name = "far" -> {<<1, 220, 1>>, <<1, 22, 1>>}
      [] name = "duo" -> {<<1, 20, 1>>, <<1, 12, 1>>}

Spots(name) == {[x |-> h[1], y |-> h[2], z |-> h[3]] : h \in Walkable(name)}

Roster(name) == IF name = "duo" THEN Players ELSE {"p1"}

Offline ==
    [dimension |-> "none", location |-> [x |-> 0, y |-> 0, z |-> 0],
     isSneaking |-> FALSE, isJumping |-> FALSE]

NoFlags == [hasTeleportedDown |-> FALSE, hasTeleportedUp |-> FALSE]

\* the flags of a player, an absent entry counting as both false
Flags(store, p) == IF p \in DOMAIN store THEN store[p] ELSE NoFlags

----------------------------------------------------------------------------
(* Host interface *)

\* dimension.getBlock(pos): the block at a whole-block position, or nothing
getBlock(dimension, pos) ==
    LET cell == <<dimension, pos.x, pos.y, pos.z>> IN
    IF cell \in DOMAIN world
    THEN [present |-> TRUE, typeId |-> world[cell]]
    ELSE [present |-> FALSE, typeId |-> "none"]

\* dimension.getPlayers()
getPlayers(dimensionName) == {p \in Players : players[p].dimension = dimensionName}

\* mutant: truncation toward zero (as by parseInt or | 0)
Floor_Truncate(v) == IF v < 0 THEN -((-v) \div 2) ELSE v \div 2

\* Math.floor of a coordinate counted in half blocks
Floor(v) == v \div 2

Abs(n) == IF n < 0 THEN -n ELSE n

----------------------------------------------------------------------------
(* The program, main.js:62-187 *)

\* mutant: the lookup stores a fresh record every time
getPlayerState_Fresh(store, playerId) ==
    [q \in DOMAIN store \cup {playerId} |->
        IF q = playerId THEN NoFlags ELSE store[q]]

\* getPlayerState: the Map after the lookup that creates a missing entry
getPlayerState(store, playerId) ==
    IF playerId \notin DOMAIN store
    THEN [q \in DOMAIN store \cup {playerId} |->
              IF q = playerId THEN NoFlags ELSE store[q]]
    ELSE store

\* mutant: each flag is cleared by the other input's release
resetPlayerState_Swapped(playerState, isSneaking, isJumping) ==
    [hasTeleportedDown |-> IF ~isJumping THEN FALSE ELSE playerState.hasTeleportedDown,
     hasTeleportedUp |-> IF ~isSneaking THEN FALSE ELSE playerState.hasTeleportedUp]

\* mutant: the flags are cleared on every tick, whatever the inputs are
resetPlayerState_Always(playerState, isSneaking, isJumping) ==
    [hasTeleportedDown |-> FALSE, hasTeleportedUp |-> FALSE]

\* resetPlayerState
resetPlayerState(playerState, isSneaking, isJumping) ==
    [hasTeleportedDown |-> IF ~isSneaking THEN FALSE ELSE playerState.hasTeleportedDown,
     hasTeleportedUp |-> IF ~isJumping THEN FALSE ELSE playerState.hasTeleportedUp]

\* mutant: the down gate opens on either input
DownGate_EitherInput(isSneaking, isJumping, playerState) ==
    (isSneaking \/ isJumping) /\ ~playerState.hasTeleportedDown

\* mutant: the down gate does not look at isJumping
DownGate_NoJump(isSneaking, isJumping, playerState) ==
    ~(~isSneaking \/ playerState.hasTeleportedDown)

\* the negation of the early return of handleDownTeleport
DownGate(isSneaking, isJumping, playerState) ==
    ~(~isSneaking \/ isJumping \/ playerState.hasTeleportedDown)

\* mutant: the up gate is wired to the sneak input
UpGate_OnSneak(isSneaking, isJumping, playerState) ==
    ~(~isSneaking \/ playerState.hasTeleportedUp)

\* the negation of the early return of handleUpTeleport
UpGate(isSneaking, isJumping, playerState) ==
    ~(~isJumping \/ isSneaking \/ playerState.hasTeleportedUp)

\* mutant: the loop breaks one level too late
BelowLimit_Strict(checkY) == checkY < miniLimit

\* if (checkPos.y <= config.miniLimit) break
BelowLimit(checkY) == checkY <= miniLimit

\* mutant: every region uses the overworld's limit
AboveLimit_AllOW(dimensionName, checkY) == checkY >= maxLimitOW

\* mutant: every region uses the limit of the nether and the end
AboveLimit_AllETC(dimensionName, checkY) == checkY >= maxLimitETC

\* the break of the up loop, by dimension
AboveLimit(dimensionName, checkY) ==
    \/ dimensionName = Overworld /\ checkY >= maxLimitOW
    \/ (dimensionName = Nether \/ dimensionName = TheEnd) /\ checkY >= maxLimitETC

\* mutant: any block found counts as a match, whatever its type
Matches_AnyBlock(block, allowedBlock) == block.present

\* the negation of: if (!block || block.typeId !== allowedBlock) continue
Matches(block, allowedBlock) == ~(~block.present \/ block.typeId # allowedBlock)

\* mutant: every match replaces the one kept, so the farthest one wins
Record_Last(s, distance, checkPos) ==
    [s EXCEPT !.foundBlock = TRUE, !.minDistance = distance,
              !.nearestBlock = {checkPos}]

\* foundBlock = true; if (distance < minDistance) {minDistance, nearestBlock = ...}
Record(s, distance, checkPos) ==
    IF distance < s.minDistance
    THEN [s EXCEPT !.foundBlock = TRUE, !.minDistance = distance,
                   !.nearestBlock = {checkPos}]
    ELSE [s EXCEPT !.foundBlock = TRUE]

\* the locals of a scan before its loop; done: the loop has hit its break;
\* looked: the ys given to getBlock, in order
ScanStart ==
    [minDistance |-> Infinity, nearestBlock |-> {}, foundBlock |-> FALSE,
     done |-> FALSE, looked |-> <<>>]

\* mutant: the offset is subtracted, so the down loop walks upwards
DownStep_Upward(dimension, pos, allowedBlock, y, s) ==
    LET checkPos == [x |-> pos.x, y |-> pos.y - y, z |-> pos.z] IN
    IF BelowLimit(checkPos.y) THEN [s EXCEPT !.done = TRUE]
    ELSE LET block == getBlock(dimension, checkPos)
             s1 == [s EXCEPT !.looked = Append(@, checkPos.y)]
         IN  IF ~Matches(block, allowedBlock) THEN s1
             ELSE Record(s1, Abs(y), checkPos)

\* mutant: a lookup that returns nothing ends the loop
DownStep_StopAtNothing(dimension, pos, allowedBlock, y, s) ==
    LET checkPos == [x |-> pos.x, y |-> pos.y + y, z |-> pos.z] IN
    IF BelowLimit(checkPos.y) THEN [s EXCEPT !.done = TRUE]
    ELSE LET block == getBlock(dimension, checkPos)
             s1 == [s EXCEPT !.looked = Append(@, checkPos.y)]
         IN  IF ~block.present THEN [s1 EXCEPT !.done = TRUE]
             ELSE IF ~Matches(block, allowedBlock) THEN s1
             ELSE Record(s1, Abs(y), checkPos)

\* one iteration of the loop of handleDownTeleport, for offset y
DownStep(dimension, pos, allowedBlock, y, s) ==
    LET checkPos == [x |-> pos.x, y |-> pos.y + y, z |-> pos.z] IN
    IF BelowLimit(checkPos.y) THEN [s EXCEPT !.done = TRUE]
    ELSE LET block == getBlock(dimension, checkPos)
             s1 == [s EXCEPT !.looked = Append(@, checkPos.y)]
         IN  IF ~Matches(block, allowedBlock) THEN s1
             ELSE Record(s1, Abs(y), checkPos)

\* the iterations y = from, from - 1, ..., to of that loop, in that order;
\* nothing runs after the break
RECURSIVE DownLoop(_, _, _, _, _, _)
DownLoop(dimension, pos, allowedBlock, from, to, s) ==
    IF s.done \/ from < to THEN s
    ELSE IF from = to THEN DownStep(dimension, pos, allowedBlock, from, s)
    ELSE LET m == (from + to + 1) \div 2 IN
         DownLoop(dimension, pos, allowedBlock, m - 1, to,
                  DownLoop(dimension, pos, allowedBlock, from, m, s))

\* one iteration of the loop of handleUpTeleport, for offset y
UpStep(dimension, dimensionName, pos, allowedBlock, y, s) ==
    LET checkPos == [x |-> pos.x, y |-> pos.y + y, z |-> pos.z] IN
    IF AboveLimit(dimensionName, checkPos.y) THEN [s EXCEPT !.done = TRUE]
    ELSE LET block == getBlock(dimension, checkPos)
             s1 == [s EXCEPT !.looked = Append(@, checkPos.y)]
         IN  IF ~Matches(block, allowedBlock) THEN s1
             ELSE Record(s1, y, checkPos)

\* the iterations y = from, from + 1, ..., to of that loop, in that order
RECURSIVE UpLoop(_, _, _, _, _, _, _)
UpLoop(dimension, dimensionName, pos, allowedBlock, from, to, s) ==
    IF s.done \/ from > to THEN s
    ELSE IF from = to THEN UpStep(dimension, dimensionName, pos, allowedBlock, from, s)
    ELSE LET m == (from + to) \div 2 IN
         UpLoop(dimension, dimensionName, pos, allowedBlock, m + 1, to,
                UpLoop(dimension, dimensionName, pos, allowedBlock, from, m, s))

\* nearestBlock.x += 0.5; nearestBlock.y += 1; nearestBlock.z += 0.5 (half blocks)
Landing(nearestBlock) ==
    [x |-> 2 * nearestBlock.x + 1, y |-> 2 * (nearestBlock.y + 1),
     z |-> 2 * nearestBlock.z + 1]

\* mutant: a teleport sets the flag in every stored record
Dispatch_SharedFlag(player, direction, dimensionName, pos, allowedBlock, s, acc, immediate) ==
    LET scan == [player |-> player, direction |-> direction, type |-> allowedBlock,
                 dimension |-> dimensionName,
                 location |-> acc.location[player], pos |-> pos,
                 looked |-> s.looked]
        acc1 == [acc EXCEPT !.scans = @ \cup {scan}]
    IN  IF s.foundBlock /\ s.nearestBlock # {}
        THEN LET found == CHOOSE b \in s.nearestBlock : TRUE
                 call == [player |-> player, direction |-> direction,
                          type |-> allowedBlock, dimension |-> dimensionName,
                          location |-> acc.location[player], pos |-> pos,
                          block |-> found, target |-> Landing(found)]
             IN  [acc1 EXCEPT
                    !.issued = Append(@, call),
                    !.location[player] = IF immediate THEN call.target ELSE @,
                    !.playerStates =
                       [q \in DOMAIN @ |->
                          IF direction = "down"
                          THEN [@[q] EXCEPT !.hasTeleportedDown = TRUE]
                          ELSE [@[q] EXCEPT !.hasTeleportedUp = TRUE]]]
        ELSE acc1

\* mutant: a teleport sets both flags
Dispatch_BothFlags(player, direction, dimensionName, pos, allowedBlock, s, acc, immediate) ==
    LET scan == [player |-> player, direction |-> direction, type |-> allowedBlock,
                 dimension |-> dimensionName,
                 location |-> acc.location[player], pos |-> pos,
                 looked |-> s.looked]
        acc1 == [acc EXCEPT !.scans = @ \cup {scan}]
    IN  IF s.foundBlock /\ s.nearestBlock # {}
        THEN LET found == CHOOSE b \in s.nearestBlock : TRUE
                 call == [player |-> player, direction |-> direction,
                          type |-> allowedBlock, dimension |-> dimensionName,
                          location |-> acc.location[player], pos |-> pos,
                          block |-> found, target |-> Landing(found)]
             IN  [acc1 EXCEPT
                    !.issued = Append(@, call),
                    !.location[player] = IF immediate THEN call.target ELSE @,
                    !.playerStates[player] =
                       [hasTeleportedDown |-> TRUE, hasTeleportedUp |-> TRUE]]
        ELSE acc1

\* mutant: the flag is set at the end of every scan, match or not
Dispatch_FlagAlways(player, direction, dimensionName, pos, allowedBlock, s, acc, immediate) ==
    LET scan == [player |-> player, direction |-> direction, type |-> allowedBlock,
                 dimension |-> dimensionName,
                 location |-> acc.location[player], pos |-> pos,
                 looked |-> s.looked]
        acc1 == [acc EXCEPT
                   !.scans = @ \cup {scan},
                   !.playerStates[player] =
                      IF direction = "down"
                      THEN [@ EXCEPT !.hasTeleportedDown = TRUE]
                      ELSE [@ EXCEPT !.hasTeleportedUp = TRUE]]
    IN  IF s.foundBlock /\ s.nearestBlock # {}
        THEN LET found == CHOOSE b \in s.nearestBlock : TRUE
                 call == [player |-> player, direction |-> direction,
                          type |-> allowedBlock, dimension |-> dimensionName,
                          location |-> acc.location[player], pos |-> pos,
                          block |-> found, target |-> Landing(found)]
             IN  [acc1 EXCEPT
                    !.issued = Append(@, call),
                    !.location[player] = IF immediate THEN call.target ELSE @]
        ELSE acc1

\* if (foundBlock && nearestBlock) {...; player.teleport(nearestBlock); flag = true}
\* acc: the Map, what player.location returns, and the calls made so far.
Dispatch(player, direction, dimensionName, pos, allowedBlock, s, acc, immediate) ==
    LET scan == [player |-> player, direction |-> direction, type |-> allowedBlock,
                 dimension |-> dimensionName,
                 location |-> acc.location[player], pos |-> pos,
                 looked |-> s.looked]
        acc1 == [acc EXCEPT !.scans = @ \cup {scan}]
    IN  IF s.foundBlock /\ s.nearestBlock # {}
        THEN LET found == CHOOSE b \in s.nearestBlock : TRUE
                 call == [player |-> player, direction |-> direction,
                          type |-> allowedBlock, dimension |-> dimensionName,
                          location |-> acc.location[player], pos |-> pos,
                          block |-> found, target |-> Landing(found)]
             IN  [acc1 EXCEPT
                    !.issued = Append(@, call),
                    !.location[player] = IF immediate THEN call.target ELSE @,
                    !.playerStates[player] =
                       IF direction = "down"
                       THEN [@ EXCEPT !.hasTeleportedDown = TRUE]
                       ELSE [@ EXCEPT !.hasTeleportedUp = TRUE]]
        ELSE acc1

\* mutant: the loop starts one step higher, at the block the player stands on
handleDownTeleport_FromBelow(player, dimension, pos, allowedBlock, acc, immediate) ==
    IF ~DownGate(players[player].isSneaking, players[player].isJumping,
                 acc.playerStates[player])
    THEN acc
    ELSE Dispatch(player, "down", dimension, pos, allowedBlock,
                  DownLoop(dimension, pos, allowedBlock, -1, -maximum, ScanStart),
                  acc, immediate)

handleDownTeleport(player, dimension, pos, allowedBlock, acc, immediate) ==
    IF ~DownGate(players[player].isSneaking, players[player].isJumping,
                 acc.playerStates[player])
    THEN acc
    ELSE Dispatch(player, "down", dimension, pos, allowedBlock,
                  DownLoop(dimension, pos, allowedBlock, -2, -maximum, ScanStart),
                  acc, immediate)

handleUpTeleport(player, dimension, pos, allowedBlock, acc, dimensionName, immediate) ==
    IF ~UpGate(players[player].isSneaking, players[player].isJumping,
               acc.playerStates[player])
    THEN acc
    ELSE Dispatch(player, "up", dimensionName, pos, allowedBlock,
                  UpLoop(dimension, dimensionName, pos, allowedBlock, 1, maximum, ScanStart),
                  acc, immediate)

\* mutant: any block below the player passes the check
Supports_Any(belowBlock, allowedBlock) == belowBlock.present

\* mutant: the check is skipped
Supports_Always(belowBlock, allowedBlock) == TRUE

\* the negation of: if (!belowBlock || belowBlock.typeId !== allowedBlock) continue
Supports(belowBlock, allowedBlock) ==
    ~(~belowBlock.present \/ belowBlock.typeId # allowedBlock)

\* pos = player.location with x, y and z floored
FloorPos(location) ==
    [x |-> Floor(location.x), y |-> Floor(location.y), z |-> Floor(location.z)]

\* the body of: for (const allowedBlock of allowedBlocks)
ForBlock(player, dimensionName, allowedBlock, acc, immediate) ==
    LET pos == FloorPos(acc.location[player])
        store == getPlayerState(acc.playerStates, player)
        acc1 == [acc EXCEPT !.playerStates =
                    [store EXCEPT ![player] =
                        resetPlayerState(@, players[player].isSneaking,
                                         players[player].isJumping)]]
        belowPos == [x |-> pos.x, y |-> pos.y - 1, z |-> pos.z]
        belowBlock == getBlock(dimensionName, belowPos)
    IN  IF ~Supports(belowBlock, allowedBlock) THEN acc1
        ELSE handleUpTeleport(player, dimensionName, pos, allowedBlock,
                 handleDownTeleport(player, dimensionName, pos, allowedBlock,
                                    acc1, immediate),
                 dimensionName, immediate)

\* for (const allowedBlock of allowedBlocks), from the i-th on.  (The second
\* disjunct is never true: it has TLC evaluate acc before the next iteration.)
RECURSIVE ForBlocks(_, _, _, _, _)
ForBlocks(player, dimensionName, i, acc, immediate) ==
    IF i > Len(allowedBlocks) \/ Len(acc.issued) < 0 THEN acc
    ELSE ForBlocks(player, dimensionName, i + 1,
                   ForBlock(player, dimensionName, allowedBlocks[i], acc, immediate),
                   immediate)

\* for (const player of dimension.getPlayers())
RECURSIVE ForPlayers(_, _, _, _)
ForPlayers(dimensionName, todo, acc, immediate) ==
    IF todo = {} \/ Len(acc.issued) < 0 THEN acc
    ELSE LET player == CHOOSE p \in todo : TRUE IN
         ForPlayers(dimensionName, todo \ {player},
                    ForBlocks(player, dimensionName, 1, acc, immediate), immediate)

\* for (const dimensionName of config.dimensions)
RECURSIVE ForDimensions(_, _, _)
ForDimensions(k, acc, immediate) ==
    IF k > Len(dimensions) \/ Len(acc.issued) < 0 THEN acc
    ELSE ForDimensions(k + 1,
                       ForPlayers(dimensions[k], getPlayers(dimensions[k]), acc,
                                  immediate),
                       immediate)

\* the callback of system.runInterval, from the state it starts in.  Whether
\* player.location already shows a teleport made earlier in the same tick is
\* the host's choice (immediate).
RunInterval(immediate) ==
    ForDimensions(1, [playerStates |-> playerStates,
                      location |-> [p \in Players |-> players[p].location],
                      issued |-> <<>>, scans |-> {}],
                  immediate)

----------------------------------------------------------------------------
(* State machine *)

EmptyMap == [p \in {} |-> NoFlags]

EmptyWorld == [c \in {} |-> "none"]

NotCooling == [down |-> FALSE, up |-> FALSE]

Init ==
    /\ scene \in Scenes
    /\ world = EmptyWorld
    /\ players = [p \in Players |-> Offline]
    /\ playerStates = EmptyMap
    /\ issued = <<>>
    /\ scans = {}
    /\ observed = EmptyMap
    /\ cooling = [p \in Players |-> NotCooling]

\* an environment step leaves the program's state alone; the records of the
\* last tick describe the step just taken, so they are emptied
HostStep ==
    /\ issued' = <<>>
    /\ scans' = {}
    /\ observed' = EmptyMap
    /\ UNCHANGED <<scene, playerStates, cooling>>

Join(p, spot) ==
    /\ p \in Roster(scene.name)
    /\ players[p].dimension = "none"
    /\ players' = [players EXCEPT ![p] =
                      [dimension |-> scene.dimension, location |-> spot,
                       isSneaking |-> FALSE, isJumping |-> FALSE]]
    /\ UNCHANGED world
    /\ HostStep

Leave(p) ==
    /\ players[p].dimension # "none"
    /\ players' = [players EXCEPT ![p] = Offline]
    /\ UNCHANGED world
    /\ HostStep

Move(p, spot) ==
    /\ players[p].dimension # "none"
    /\ players[p].location # spot
    /\ players' = [players EXCEPT ![p].location = spot]
    /\ UNCHANGED world
    /\ HostStep

SetInput(p, sneaking, jumping) ==
    /\ players[p].dimension # "none"
    /\ <<players[p].isSneaking, players[p].isJumping>> # <<sneaking, jumping>>
    /\ players' = [players EXCEPT ![p].isSneaking = sneaking,
                                  ![p].isJumping = jumping]
    /\ UNCHANGED world
    /\ HostStep

PlaceBlock(cell, type) ==
    /\ <<cell[2], cell[3], cell[4], type>> \in Placeable(scene.name)
    /\ \/ cell \notin DOMAIN world /\ Cardinality(DOMAIN world) < MaxBlocks
       \/ cell \in DOMAIN world /\ world[cell] # type
    /\ world' = [c \in DOMAIN world \cup {cell} |->
                    IF c = cell THEN type ELSE world[c]]
    /\ UNCHANGED players
    /\ HostStep

BreakBlock(cell) ==
    /\ cell \in DOMAIN world
    /\ world' = [c \in DOMAIN world \ {cell} |-> world[c]]
    /\ UNCHANGED players
    /\ HostStep

\* the calls of the last tick made for player p in one direction
CallsOf(calls, p, direction) ==
    {i \in DOMAIN calls : calls[i].player = p /\ calls[i].direction = direction}

\* where the last teleport of a tick leaves the player
After(calls, p) ==
    LET mine == {i \in DOMAIN calls : calls[i].player = p} IN
    IF mine = {} THEN players[p].location
    ELSE calls[CHOOSE i \in mine : \A j \in mine : j <= i].target

Tick ==
    \E immediate \in BOOLEAN :
    \E r \in {RunInterval(immediate)} :
      LET online == UNION {getPlayers(dimensions[k]) : k \in DOMAIN dimensions}
      IN
      /\ playerStates' = r.playerStates
      /\ issued' = r.issued
      /\ scans' = r.scans
      /\ players' = [p \in Players |->
                        [players[p] EXCEPT !.location = After(r.issued, p)]]
      /\ observed' = [p \in online |->
                        [location |-> players[p].location,
                         known |-> p \in DOMAIN playerStates,
                         flags |-> Flags(playerStates, p),
                         cooling |-> cooling[p]]]
      /\ cooling' = [p \in Players |->
            [down |-> IF CallsOf(r.issued, p, "down") # {} THEN TRUE
                      ELSE IF p \in online /\ ~players[p].isSneaking THEN FALSE
                      ELSE cooling[p].down,
             up |-> IF CallsOf(r.issued, p, "up") # {} THEN TRUE
                    ELSE IF p \in online /\ ~players[p].isJumping THEN FALSE
                    ELSE cooling[p].up]]
      /\ UNCHANGED <<scene, world>>

Next ==
    \/ Tick
    \/ \E p \in Players, spot \in Spots(scene.name) : Join(p, spot)
    \/ \E p \in Players : Leave(p)
    \/ \E p \in Players, spot \in Spots(scene.name) : Move(p, spot)
    \/ \E p \in Players, sneaking \in BOOLEAN, jumping \in BOOLEAN :
           SetInput(p, sneaking, jumping)
    \/ \E b \in Placeable(scene.name) :
           PlaceBlock(<<scene.dimension, b[1], b[2], b[3]>>, b[4])
    \/ \E cell \in DOMAIN world : BreakBlock(cell)

Spec == Init /\ [][Next]_vars

----------------------------------------------------------------------------
(* Vocabulary of the properties, stated without the program's operators *)

AllowedTypes == {allowedBlocks[i] : i \in DOMAIN allowedBlocks}

\* the type of the block at a whole-block position, "none" where there is none
TypeAt(d, x, y, z) ==
    IF <<d, x, y, z>> \in DOMAIN world THEN world[<<d, x, y, z>>] ELSE "none"

\* the integer n with n <= h/2 < n + 1, for h counted in half blocks
FloorOf(h) ==
    CHOOSE n \in ((h \div 2) - 1)..((h \div 2) + 1) : 2 * n <= h /\ h < 2 * n + 2

BlockPos(location) ==
    [x |-> FloorOf(location.x), y |-> FloorOf(location.y), z |-> FloorOf(location.z)]

\* the upper bound of a region, as the specification gives it
UpperBound(d) == IF d = Overworld THEN 340 ELSE 255

\* the ys a scan from pos may reach: within the step budget, inside the bounds
InRange(direction, d, pos, y) ==
    IF direction = "down"
    THEN pos.y - y >= 2 /\ pos.y - y <= 100 /\ y > -65
    ELSE y - pos.y >= 1 /\ y - pos.y <= 100 /\ y < UpperBound(d)

\* the ys of the blocks of type t in the column of pos that a scan may reach
MatchesInRange(direction, d, pos, t) ==
    {c[3] : c \in {c \in DOMAIN world :
                      /\ c[1] = d /\ c[2] = pos.x /\ c[4] = pos.z
                      /\ world[c] = t
                      /\ InRange(direction, d, pos, c[3])}}

\* the type of the block a player at this location stands on
StandsOn(d, location) ==
    LET pos == BlockPos(location) IN TypeAt(d, pos.x, pos.y - 1, pos.z)

Calls == {issued[i] : i \in DOMAIN issued}

Processed == DOMAIN observed

\* p was processed by the last tick, which made no teleport call for p
Stayed(p) == p \in Processed /\ \A c \in Calls : c.player # p

----------------------------------------------------------------------------
(* C1. Cooldown: once a down-teleport has fired for a player, no further   *)
(* down-teleport is issued for that player until a tick has observed the   *)
(* player with isSneaking false; the same for up-teleports and isJumping.  *)
(* cooling records exactly that history, from the calls and the inputs.    *)
C1_Cooldown ==
    \A c \in Calls :
        /\ c.direction = "down" => ~observed[c.player].cooling.down
        /\ c.direction = "up" => ~observed[c.player].cooling.up

\* sneak held since a down-teleport, on an allowed block with a match below
\* in range: the tick made no call
C1_Witness ==
    /\ Stayed("p1")
    /\ observed["p1"].cooling.down
    /\ players["p1"].isSneaking /\ ~players["p1"].isJumping
    /\ StandsOn(players["p1"].dimension, players["p1"].location) \in AllowedTypes
    /\ MatchesInRange("down", players["p1"].dimension,
                      BlockPos(players["p1"].location),
                      StandsOn(players["p1"].dimension, players["p1"].location)) # {}

----------------------------------------------------------------------------
(* C2. Nearest match: the block a teleport targets is a block of the       *)
(* standing type in the player's column, inside the scanned range of its   *)
(* direction, and no block of that type inside that range is nearer.       *)
C2_Nearest ==
    \A c \in Calls :
        LET pos == BlockPos(c.location)
            near == MatchesInRange(c.direction, c.dimension, pos, c.type)
        IN  /\ c.block.x = pos.x /\ c.block.z = pos.z
            /\ c.block.y \in near
            /\ \A y \in near : Abs(c.block.y - pos.y) <= Abs(y - pos.y)

\* Scenario A: from (0, 10, 0) on a diamond block, diamond blocks at y = 5
\* and y = 2: the call goes to (0.5, 6, 0.5)
C2_Witness ==
    \E c \in Calls :
        /\ c.direction = "down" /\ c.type = Diamond
        /\ c.location = [x |-> 0, y |-> 20, z |-> 0]
        /\ TypeAt(c.dimension, 0, 9, 0) = Diamond
        /\ TypeAt(c.dimension, 0, 5, 0) = Diamond
        /\ TypeAt(c.dimension, 0, 2, 0) = Diamond
        /\ c.target = [x |-> 1, y |-> 12, z |-> 1]

----------------------------------------------------------------------------
(* C3. Mutual exclusivity: no teleport is issued for a player whose        *)
(* isSneaking and isJumping are both true in the tick.                     *)
C3_Exclusive ==
    \A c \in Calls : ~(players[c.player].isSneaking /\ players[c.player].isJumping)

\* both inputs held, no cooldown pending, on an allowed block with matches
\* below and above in range: the tick made no call
C3_Witness ==
    LET d == players["p1"].dimension
        loc == players["p1"].location
    IN  /\ Stayed("p1")
        /\ players["p1"].isSneaking /\ players["p1"].isJumping
        /\ observed["p1"].flags = NoFlags
        /\ StandsOn(d, loc) \in AllowedTypes
        /\ MatchesInRange("down", d, BlockPos(loc), StandsOn(d, loc)) # {}
        /\ MatchesInRange("up", d, BlockPos(loc), StandsOn(d, loc)) # {}

----------------------------------------------------------------------------
(* C4. Lower bound: a down-teleport never targets a block at y <= -65      *)
(* (config.miniLimit), and a down scan looks at no y at or beneath that    *)
(* level, so a match there is never reached even when it is the only one.  *)
C4_LowerBound ==
    /\ \A c \in Calls : c.direction = "down" => c.block.y > -65
    /\ \A s \in scans :
           s.direction = "down" => \A i \in DOMAIN s.looked : s.looked[i] > -65

\* sneaking on a diamond block at y = -61 with the gate open, the only other
\* diamond blocks at y <= -65: the scan ran, looked at -62, -63, -64, and
\* the tick made no call
C4_Witness ==
    LET d == players["p1"].dimension
        loc == players["p1"].location
    IN  /\ Stayed("p1")
        /\ players["p1"].isSneaking /\ ~players["p1"].isJumping
        /\ ~observed["p1"].flags.hasTeleportedDown
        /\ BlockPos(loc).y = -60
        /\ StandsOn(d, loc) = Diamond
        /\ TypeAt(d, BlockPos(loc).x, -65, BlockPos(loc).z) = Diamond
        /\ \E s \in scans : /\ s.player = "p1" /\ s.direction = "down"
                            /\ s.looked = <<-62, -63, -64>>

----------------------------------------------------------------------------
(* C5. Upper bound per region: an up-teleport never targets a block at or  *)
(* beyond the region's upper bound, 340 (config.maxLimitOW) in the         *)
(* overworld and 255 (config.maxLimitETC) in the nether and the end, and   *)
(* an up scan looks at no y at or beyond it.                               *)
C5_UpperBound ==
    /\ \A c \in Calls : c.direction = "up" => c.block.y < UpperBound(c.dimension)
    /\ \A s \in scans :
           s.direction = "up" =>
               \A i \in DOMAIN s.looked : s.looked[i] < UpperBound(s.dimension)

\* Scenario D: jumping at y = 330 on a diamond block in the nether, a
\* diamond block at y = 338, the gate open: the tick made no call
C5_Witness ==
    LET d == players["p1"].dimension
        loc == players["p1"].location
    IN  /\ Stayed("p1")
        /\ d = Nether
        /\ players["p1"].isJumping /\ ~players["p1"].isSneaking
        /\ ~observed["p1"].flags.hasTeleportedUp
        /\ BlockPos(loc).y = 330
        /\ StandsOn(d, loc) = Diamond
        /\ TypeAt(d, BlockPos(loc).x, 338, BlockPos(loc).z) = Diamond

----------------------------------------------------------------------------
(* C6. A teleport fires when it should: a player processed by a tick who   *)
(* stood on a block of allowed type T with a direction's gate open (the    *)
(* input held, the other input not held, the direction's flag false) and   *)
(* a block of type T in range in that direction got a teleport call in     *)
(* that direction in that tick.                                            *)
C6_Fires ==
    \A p \in Processed :
        LET d == players[p].dimension
            loc == observed[p].location
            t == StandsOn(d, loc)
            fired(direction) ==
                \E c \in Calls : /\ c.player = p /\ c.direction = direction
                                 /\ c.type = t
        IN  t \in AllowedTypes =>
              /\ ( /\ players[p].isJumping /\ ~players[p].isSneaking
                   /\ ~observed[p].flags.hasTeleportedUp
                   /\ MatchesInRange("up", d, BlockPos(loc), t) # {} )
                 => fired("up")
              /\ ( /\ players[p].isSneaking /\ ~players[p].isJumping
                   /\ ~observed[p].flags.hasTeleportedDown
                   /\ MatchesInRange("down", d, BlockPos(loc), t) # {} )
                 => fired("down")

\* Scenario C: jumping at y = 330 in the overworld, a matching block at
\* y = 338: the up-teleport is issued
C6_Witness ==
    \E c \in Calls :
        /\ c.direction = "up" /\ c.dimension = Overworld
        /\ BlockPos(c.location).y = 330
        /\ c.block.y = 338

----------------------------------------------------------------------------
(* C7. Gating on the support block: every scan and every teleport of a     *)
(* tick is for the type of the block one below the player's floored        *)
(* position; a player above no block, or above a block of another type,    *)
(* is not scanned for type T.                                              *)
C7_Gating ==
    /\ \A s \in scans : StandsOn(s.dimension, s.location) = s.type
    /\ \A c \in Calls : StandsOn(c.dimension, c.location) = c.type

\* sneaking on a stone block with the gate open and a diamond block below in
\* range: the tick ran no scan
C7_Witness ==
    LET d == players["p1"].dimension
        loc == players["p1"].location
    IN  /\ Stayed("p1")
        /\ players["p1"].isSneaking /\ ~players["p1"].isJumping
        /\ ~observed["p1"].flags.hasTeleportedDown
        /\ StandsOn(d, loc) = Stone
        /\ MatchesInRange("down", d, BlockPos(loc), Diamond) # {}
        /\ scans = {}

----------------------------------------------------------------------------
(* C8. Off the support block.                                              *)

\* what the reset rule makes of a player's flags
ResetRule(flags, isSneaking, isJumping) ==
    [hasTeleportedDown |-> flags.hasTeleportedDown /\ isSneaking,
     hasTeleportedUp |-> flags.hasTeleportedUp /\ isJumping]

\* the state in which a tick starts processing a player
TickStart ==
    [playerStates |-> playerStates,
     location |-> [p \in Players |-> players[p].location],
     issued |-> <<>>, scans |-> {}]

\* the (player, type) pairs whose type is not that of the block below
OffPairs ==
    {<<p, t>> \in Players \X AllowedTypes :
        /\ players[p].dimension # "none"
        /\ StandsOn(players[p].dimension, players[p].location) # t}

\* C8 as claimed: processing a (player, type) pair whose type is not that of
\* the block below leaves the player's flags exactly as they were, and a
\* player above no allowed block has both flags unchanged by the tick.
C8_Original ==
    /\ \A pt \in OffPairs :
           Flags(ForBlock(pt[1], players[pt[1]].dimension, pt[2], TickStart,
                          FALSE).playerStates, pt[1])
             = Flags(playerStates, pt[1])
    /\ \A p \in Processed :
           StandsOn(players[p].dimension, observed[p].location) \notin AllowedTypes
             => Flags(playerStates, p) = observed[p].flags

\* C8 as amended: processing such a pair changes the flags by the reset rule
\* alone (hasTeleportedDown is cleared when isSneaking is false,
\* hasTeleportedUp when isJumping is false), sets no flag, and makes no scan
\* and no call; a player above no allowed block ends the tick with the flags
\* the reset rule gives.
C8_ResetOnly ==
    /\ \A pt \in OffPairs :
           LET after == ForBlock(pt[1], players[pt[1]].dimension, pt[2],
                                 TickStart, FALSE)
           IN  /\ after.playerStates[pt[1]]
                    = ResetRule(Flags(playerStates, pt[1]),
                                players[pt[1]].isSneaking,
                                players[pt[1]].isJumping)
               /\ after.issued = <<>> /\ after.scans = {}
    /\ \A p \in Processed :
           StandsOn(players[p].dimension, observed[p].location) \notin AllowedTypes
             => playerStates[p] = ResetRule(observed[p].flags,
                                            players[p].isSneaking,
                                            players[p].isJumping)

\* a player with hasTeleportedDown set who released sneak and stands on no
\* allowed block: the tick cleared the flag
C8_Witness ==
    /\ Stayed("p1")
    /\ StandsOn(players["p1"].dimension, players["p1"].location) \notin AllowedTypes
    /\ observed["p1"].flags.hasTeleportedDown
    /\ ~players["p1"].isSneaking
    /\ ~playerStates["p1"].hasTeleportedDown

----------------------------------------------------------------------------
(* C9. Re-arming: after a tick that processed a player with isSneaking     *)
(* false, hasTeleportedDown is false, and with isJumping false,            *)
(* hasTeleportedUp is false; and a flag that is true becomes false only in *)
(* a tick that processes the player with the corresponding input released. *)
C9_Rearm ==
    [][ /\ \A p \in DOMAIN observed' :
              /\ ~players'[p].isSneaking => ~playerStates'[p].hasTeleportedDown
              /\ ~players'[p].isJumping => ~playerStates'[p].hasTeleportedUp
        /\ \A p \in Players :
              /\ ( /\ Flags(playerStates, p).hasTeleportedDown
                   /\ ~Flags(playerStates', p).hasTeleportedDown )
                 => p \in DOMAIN observed' /\ ~players[p].isSneaking
              /\ ( /\ Flags(playerStates, p).hasTeleportedUp
                   /\ ~Flags(playerStates', p).hasTeleportedUp )
                 => p \in DOMAIN observed' /\ ~players[p].isJumping
      ]_vars

\* TELEPORTED back to IDLE: hasTeleportedUp was set, jump is released, and
\* the tick cleared the flag
C9_Witness ==
    /\ "p1" \in Processed
    /\ observed["p1"].flags.hasTeleportedUp
    /\ ~players["p1"].isJumping
    /\ ~playerStates["p1"].hasTeleportedUp

----------------------------------------------------------------------------
(* C10. Landing position: every teleport goes to (blockX + 0.5,            *)
(* blockY + 1, blockZ + 0.5), where blockX and blockZ are the floors of    *)
(* the player's x and z, and the block found is of an allowed type.        *)
C10_Landing ==
    \A c \in Calls :
        /\ c.target = [x |-> 2 * c.block.x + 1, y |-> 2 * (c.block.y + 1),
                       z |-> 2 * c.block.z + 1]
        /\ 2 * c.block.x <= c.location.x /\ c.location.x < 2 * c.block.x + 2
        /\ 2 * c.block.z <= c.location.z /\ c.location.z < 2 * c.block.z + 2
        /\ TypeAt(c.dimension, c.block.x, c.block.y, c.block.z) \in AllowedTypes

\* from x = -0.5, y = 10.5, z = 0.5 down to the block (-1, 5, 0): the call
\* goes to (-0.5, 6, 0.5)
C10_Witness ==
    \E c \in Calls :
        /\ c.location = [x |-> -1, y |-> 21, z |-> 1]
        /\ c.block = [x |-> -1, y |-> 5, z |-> 0]
        /\ c.target = [x |-> -1, y |-> 12, z |-> 1]

----------------------------------------------------------------------------
(* C11. One direction per (player, block type) per tick: the calls of one  *)
(* tick never hold both a down-teleport and an up-teleport for the same    *)
(* player and the same allowed block type.                                 *)
C11_OneDirection ==
    \A c1 \in Calls : \A c2 \in Calls :
        (c1.player = c2.player /\ c1.type = c2.type) => c1.direction = c2.direction

\* a down-teleport was issued for a player who also had a block of the
\* standing type above in range: no up-teleport came with it
C11_Witness ==
    \E c \in Calls :
        /\ c.direction = "down"
        /\ MatchesInRange("up", c.dimension, BlockPos(c.location), c.type) # {}
        /\ \A c2 \in Calls : c2.player = c.player => c2.direction = "down"

----------------------------------------------------------------------------
(* C12. Type isolation: the block a teleport targets has the type of the   *)
(* block the player stood on when the teleport was decided; and a scan     *)
(* with a block of the standing type in range ends in a teleport to the    *)
(* nearest such block, whatever blocks of other types lie in the column    *)
(* before it.                                                              *)
C12_TypeIsolation ==
    /\ \A c \in Calls :
           TypeAt(c.dimension, c.block.x, c.block.y, c.block.z)
             = StandsOn(c.dimension, c.location)
    /\ \A s \in scans :
           LET pos == BlockPos(s.location)
               same == MatchesInRange(s.direction, s.dimension, pos,
                                      StandsOn(s.dimension, s.location))
           IN  same # {} =>
                 \E c \in Calls :
                    /\ c.player = s.player /\ c.direction = s.direction
                    /\ c.block.y \in same
                    /\ \A y \in same : Abs(c.block.y - pos.y) <= Abs(y - pos.y)

\* on a diamond block at y = 9 with a copper block at y = 5 and a diamond
\* block at y = 2: the down-teleport passes the copper block and targets y = 2
C12_Witness ==
    \E c \in Calls :
        /\ c.direction = "down"
        /\ StandsOn(c.dimension, c.location) = Diamond
        /\ BlockPos(c.location).y = 10
        /\ TypeAt(c.dimension, c.block.x, 5, c.block.z) = Copper
        /\ c.block.y = 2

----------------------------------------------------------------------------
(* C13. Scan exhaustion.                                                   *)

\* the tick that would run now makes a call for p in this direction
WouldFire(p, direction) ==
    \A immediate \in BOOLEAN : CallsOf(RunInterval(immediate).issued, p, direction) # {}

\* the direction's gate is open for p: its input held, the other input not,
\* its flag false
GateOpen(p, direction) ==
    IF direction = "down"
    THEN /\ players[p].isSneaking /\ ~players[p].isJumping
         /\ ~Flags(playerStates, p).hasTeleportedDown
    ELSE /\ players[p].isJumping /\ ~players[p].isSneaking
         /\ ~Flags(playerStates, p).hasTeleportedUp

\* C13: a scan that ran with no block of its type in range makes no teleport
\* call for the player, and the player's flags after the tick are those the
\* reset rule gives: no flag is set, and the direction's flag is still false.
\* And in every state, also one that follows such a tick, a player whose gate
\* is open above or below a block of the standing type in range is
\* teleported by the tick that runs next.
C13_Exhaustion ==
    /\ \A s \in scans :
          MatchesInRange(s.direction, s.dimension, BlockPos(s.location), s.type) = {}
            => /\ \A c \in Calls : c.player # s.player
               /\ playerStates[s.player]
                    = ResetRule(observed[s.player].flags,
                                players[s.player].isSneaking,
                                players[s.player].isJumping)
               /\ s.direction = "down" => ~playerStates[s.player].hasTeleportedDown
               /\ s.direction = "up" => ~playerStates[s.player].hasTeleportedUp
               /\ GateOpen(s.player, s.direction)
    /\ \A p \in Players : \A direction \in {"down", "up"} :
          LET d == players[p].dimension
              t == StandsOn(d, players[p].location)
          IN  ( /\ d # "none" /\ t \in AllowedTypes
                /\ GateOpen(p, direction)
                /\ MatchesInRange(direction, d, BlockPos(players[p].location), t) # {} )
              => WouldFire(p, direction)

\* sneaking at y = 110 on a diamond block, the only diamond block below at
\* y = 9, 101 steps away: the scan used its 99 steps, no call, no flag
C13_Witness ==
    /\ Stayed("p1")
    /\ BlockPos(players["p1"].location).y = 110
    /\ TypeAt(players["p1"].dimension, 0, 9, 0) = Diamond
    /\ \E s \in scans : /\ s.player = "p1" /\ s.direction = "down"
                        /\ Len(s.looked) = 99
    /\ playerStates["p1"] = NoFlags

----------------------------------------------------------------------------
(* C14. The flags are set exactly by teleports: for a player processed by  *)
(* a tick, hasTeleportedDown is false before the tick and true after it if *)
(* and only if the tick issued a down-teleport for that player, and the    *)
(* same for hasTeleportedUp and up-teleports; a teleport in one direction  *)
(* leaves the other direction's flag as the reset rule gives it; and calls *)
(* are made for processed players only.                                    *)
C14_SetByTeleport ==
    /\ \A c \in Calls : c.player \in Processed
    /\ \A p \in Processed :
          LET before == observed[p].flags
              after == playerStates[p]
              rule == ResetRule(before, players[p].isSneaking, players[p].isJumping)
              down == \E c \in Calls : c.player = p /\ c.direction = "down"
              up == \E c \in Calls : c.player = p /\ c.direction = "up"
          IN  /\ (~before.hasTeleportedDown /\ after.hasTeleportedDown) <=> down
              /\ (~before.hasTeleportedUp /\ after.hasTeleportedUp) <=> up
              /\ down => after.hasTeleportedUp = rule.hasTeleportedUp
              /\ up => after.hasTeleportedDown = rule.hasTeleportedDown

\* a down-teleport for a player whose flags were both false: after the tick
\* hasTeleportedDown is true and hasTeleportedUp is still false
C14_Witness ==
    /\ "p1" \in Processed
    /\ observed["p1"].flags = NoFlags
    /\ \E c \in Calls : c.player = "p1" /\ c.direction = "down"
    /\ playerStates["p1"] = [hasTeleportedDown |-> TRUE, hasTeleportedUp |-> FALSE]

----------------------------------------------------------------------------
(* C15. A lookup that returns nothing, or a block of another type, is a    *)
(* non-match and not a stop: after looking at such a y the scan looks at   *)
(* the next y whenever that one is still in range, and every block of the  *)
(* scan's type in range is looked at and ends in a teleport call of the    *)
(* scan's direction to a block of that type.                               *)
C15_NonMatch ==
    \A s \in scans :
        LET pos == BlockPos(s.location)
            next(y) == IF s.direction = "down" THEN y - 1 ELSE y + 1
            seen == {s.looked[i] : i \in DOMAIN s.looked}
        IN  /\ \A i \in DOMAIN s.looked :
                  ( /\ TypeAt(s.dimension, pos.x, s.looked[i], pos.z) # s.type
                    /\ InRange(s.direction, s.dimension, pos, next(s.looked[i])) )
                  => /\ i + 1 \in DOMAIN s.looked
                     /\ s.looked[i + 1] = next(s.looked[i])
            /\ \A y \in MatchesInRange(s.direction, s.dimension, pos, s.type) :
                  /\ y \in seen
                  /\ \E c \in Calls :
                        /\ c.player = s.player /\ c.direction = s.direction
                        /\ TypeAt(c.dimension, c.block.x, c.block.y, c.block.z) = s.type

\* from y = 10 on a diamond block down to a diamond block at y = 2 with
\* nothing at y = 8, 7, 6, 4, 3 and a copper block or nothing at y = 5
C15_Witness ==
    \E c \in Calls :
        /\ c.direction = "down" /\ c.type = Diamond
        /\ BlockPos(c.location).y = 10
        /\ c.block.y = 2
        /\ \A y \in 3..8 : TypeAt(c.dimension, c.block.x, y, c.block.z) # Diamond
        /\ TypeAt(c.dimension, c.block.x, 8, c.block.z) = "none"

----------------------------------------------------------------------------
(* C16. Step budget and offsets: a down scan looks at the ys at offsets    *)
(* -2, -3, ... from the player's floored y, in that order, each once,      *)
(* never at offset -1 and never past offset -100; an up scan at offsets    *)
(* 1, 2, ... up to 100 at most; a scan stops before the budget only at     *)
(* the region's bound; and no teleport targets a block more than 100 away. *)
C16_Offsets ==
    /\ \A s \in scans :
          LET pos == BlockPos(s.location)
              n == Len(s.looked)
          IN  IF s.direction = "down"
              THEN /\ \A i \in 1..n : s.looked[i] = pos.y - 1 - i
                   /\ n <= 99
                   /\ n < 99 => ~InRange("down", s.dimension, pos, pos.y - 2 - n)
              ELSE /\ \A i \in 1..n : s.looked[i] = pos.y + i
                   /\ n <= 100
                   /\ n < 100 => ~InRange("up", s.dimension, pos, pos.y + 1 + n)
    /\ \A c \in Calls :
          LET distance == Abs(c.block.y - BlockPos(c.location).y)
          IN  /\ distance <= 100
              /\ c.direction = "down" => distance >= 2

\* jumping at y = 11 on a diamond block, the only diamond block above at
\* y = 112, 101 steps away: the scan looked at 12, ..., 111 and found nothing
C16_Witness ==
    /\ Stayed("p1")
    /\ BlockPos(players["p1"].location).y = 11
    /\ TypeAt(players["p1"].dimension, 0, 112, 0) = Diamond
    /\ MatchesInRange("up", players["p1"].dimension,
                      BlockPos(players["p1"].location), Diamond) = {}
    /\ \E s \in scans : /\ s.player = "p1" /\ s.direction = "up"
                        /\ Len(s.looked) = 100
                        /\ s.looked[1] = 12 /\ s.looked[100] = 111

----------------------------------------------------------------------------
(* C17. Lifecycle of the stored player states: no step removes an entry,   *)
(* and a tick adds an entry exactly for the players it processes that had  *)
(* none; the entry of a player that a step does not process is unchanged   *)
(* (a flag left true stays true while the player is away); the lookup of   *)
(* a known player does not reset the record (a flag that is true, with its *)
(* input still held, is true after the tick); and the record made for an   *)
(* unknown player starts with both flags false (a flag of a new entry is   *)
(* true only if the same tick issued the teleport that sets it).           *)
C17_Lifecycle ==
    [][ /\ DOMAIN playerStates \subseteq DOMAIN playerStates'
        /\ DOMAIN playerStates' = DOMAIN playerStates \cup DOMAIN observed'
        /\ \A p \in DOMAIN playerStates \ DOMAIN observed' :
              playerStates'[p] = playerStates[p]
        /\ \A p \in DOMAIN observed' \cap DOMAIN playerStates :
              /\ (playerStates[p].hasTeleportedDown /\ players[p].isSneaking)
                   => playerStates'[p].hasTeleportedDown
              /\ (playerStates[p].hasTeleportedUp /\ players[p].isJumping)
                   => playerStates'[p].hasTeleportedUp
        /\ \A p \in DOMAIN observed' \ DOMAIN playerStates :
              /\ playerStates'[p].hasTeleportedDown
                   => CallsOf(issued', p, "down") # {}
              /\ playerStates'[p].hasTeleportedUp
                   => CallsOf(issued', p, "up") # {}
      ]_vars

\* a tick processed p2 while p1, away with hasTeleportedDown left true, was
\* not processed: the entry of p1 is still there, the flag still true
C17_Witness ==
    /\ "p2" \in Processed /\ "p1" \notin Processed
    /\ players["p1"].dimension = "none"
    /\ "p1" \in DOMAIN playerStates
    /\ playerStates["p1"].hasTeleportedDown

----------------------------------------------------------------------------
(* C18. At most one teleport per player per tick: the calls of one tick,   *)
(* over all regions and all allowed block types, hold at most one call for *)
(* any player, whether or not player.location shows the teleport before    *)
(* the tick ends (both choices of the host are explored by Tick, and the   *)
(* tick that would run from the current state is run under both).          *)
C18_OnePerTick ==
    /\ \A p \in Players :
          Cardinality({i \in DOMAIN issued : issued[i].player = p}) <= 1
    /\ \A immediate \in BOOLEAN :
          \A calls \in {RunInterval(immediate).issued} : \A p \in Players :
              Cardinality({i \in DOMAIN calls : calls[i].player = p}) <= 1

\* a down-teleport onto a diamond block that has another diamond block in
\* range below it: the tick went on to the other block types from the new
\* or the old position and made no second call
C18_Witness ==
    \E c \in Calls :
        /\ c.direction = "down"
        /\ MatchesInRange("down", c.dimension, BlockPos(c.target), c.type) # {}
        /\ Cardinality({i \in DOMAIN issued : issued[i].player = c.player}) = 1

----------------------------------------------------------------------------
(* C19. Direction of travel: a down-teleport lands between 1 and 99 blocks *)
(* below the player's floored y, an up-teleport between 2 and 101 blocks   *)
(* above it (target and floored y compared in half blocks); so a           *)
(* down-teleport lands below where the player was and an up-teleport       *)
(* above it.                                                               *)
C19_Direction ==
    \A c \in Calls :
        LET from == 2 * FloorOf(c.location.y)
        IN  /\ c.direction = "down" =>
                 /\ c.target.y < from /\ c.target.y < c.location.y
                 /\ from - c.target.y >= 2 * 1 /\ from - c.target.y <= 2 * 99
            /\ c.direction = "up" =>
                 /\ c.target.y > from /\ c.target.y > c.location.y
                 /\ c.target.y - from >= 2 * 2 /\ c.target.y - from <= 2 * 101

\* the far end: from y = 11 up onto the block at y = 111, landing at
\* y = 112, 101 blocks higher
C19_Witness ==
    \E c \in Calls :
        /\ c.direction = "up"
        /\ FloorOf(c.location.y) = 11
        /\ c.target.y = 2 * 112

----------------------------------------------------------------------------
(* C20. Player isolation: processing one player (the reset, the scans, the *)
(* teleport) leaves every other player's stored flags and location as they *)
(* were and makes calls for that player only; what a tick does to a player *)
(* (flags after it, calls made) is what processing that player alone from  *)
(* the same state does; and a processed player for whom the tick made no   *)
(* call ends it with the flags the reset rule gives, whatever happened to  *)
(* the other players.                                                      *)
C20_Isolation ==
    /\ \A immediate \in BOOLEAN : \A full \in {RunInterval(immediate)} :
       \A p \in {q \in Players : players[q].dimension # "none"} :
       \A alone \in {ForBlocks(p, players[p].dimension, 1, TickStart, immediate)} :
          /\ DOMAIN alone.playerStates = DOMAIN playerStates \cup {p}
          /\ \A q \in Players \ {p} :
                /\ Flags(alone.playerStates, q) = Flags(playerStates, q)
                /\ alone.location[q] = players[q].location
          /\ \A i \in DOMAIN alone.issued : alone.issued[i].player = p
          /\ full.playerStates[p] = alone.playerStates[p]
          /\ {full.issued[i] : i \in CallsOf(full.issued, p, "down")
                                    \cup CallsOf(full.issued, p, "up")}
               = {alone.issued[i] : i \in DOMAIN alone.issued}
    /\ \A q \in Processed :
          Stayed(q) => playerStates[q] = ResetRule(observed[q].flags,
                                                   players[q].isSneaking,
                                                   players[q].isJumping)

\* both players sneaking with no flag set, p1 with a diamond block in range
\* below and p2 with none: the tick teleported p1 and set its flag, and p2
\* got no call and no flag
C20_Witness ==
    /\ Processed = {"p1", "p2"}
    /\ observed["p1"].flags = NoFlags /\ observed["p2"].flags = NoFlags
    /\ players["p1"].isSneaking /\ players["p2"].isSneaking
    /\ ~players["p2"].isJumping
    /\ StandsOn(players["p2"].dimension, players["p2"].location) = Diamond
    /\ \E c \in Calls : c.player = "p1" /\ c.direction = "down"
    /\ playerStates["p1"].hasTeleportedDown
    /\ Stayed("p2")
    /\ playerStates["p2"] = NoFlags

====
